---- MODULE Spec2Model ----
(***************************************************************************)
(* The incremental computation engine of src/src/lib.rs (module ic):       *)
(* Graph, Leaf, Branch::verify, the tokens and ParentToken::compute, run   *)
(* on the three graphs the repository's tests build.                       *)
(*                                                                         *)
(* A verify call is recursive in the code; here it is a call stack of      *)
(* frames, one per Branch::verify activation, advanced one operation of    *)
(* the code at a time.  A panic unwinds the stack frame by frame, dropping *)
(* the ParentToken (and so the RefMut) of every frame it passes.           *)
(***************************************************************************)
EXTENDS Integers, Sequences, FiniteSets, TLC

\* Bound on Graph.revision: the number of effective replaces in a run.
MaxRev == 2

\* Bound on the BranchRefs a top-level caller keeps alive at one time.
MaxHeld == 2

VARIABLES
    scenario,   \* which of the tests' graphs (struct E) was built
    revision,   \* Graph.revision
    leaf,       \* Leaf: value, last_modified
    branch,     \* BranchInner: value, last_modified, last_verified
    cell,       \* RefCell borrow flag of Branch.inner: -1 RefMut, n >= 0 Refs
    stack,      \* the Branch::verify activations of the running call
    panic,      \* message of the panic being unwound, or "none"
    err,        \* how the last top-level call ended: "none" or a panic message
    runs,       \* per branch: closure invocations since the last effective replace
    deps,       \* per branch: leaves read, transitively, by its last finished closure run
    computedAt, \* per branch: revision at which its compute mutator last ran, 0 if never
    retval,     \* per branch: what verify last returned since the last effective replace
    aborted,    \* branches whose closure run was unwound by a cycle panic and not rerun since
    replaced,   \* the graph.replace call the caller has just made: leaf, argument and
                \* returned value; << >> once the caller has gone on to a verify
    changedAt,  \* per leaf: Graph.revision right after the last call that changed its value
    effective,  \* number of calls so far that changed a leaf's value
    computes,   \* per branch: runs of its compute mutator since the last effective replace
    entry       \* the branches and their counts as the running top-level call found
                \* them; << >> between calls

vars == <<scenario, revision, leaf, branch, cell, stack, panic, err,
          runs, deps, computedAt, retval, aborted, replaced, changedAt, effective,
          computes, entry>>

ghost == <<runs, deps, computedAt, retval, aborted, changedAt, effective, computes, entry>>

----------------------------------------------------------------------------
(* The graphs of the tests.                                                *)

Scenarios == {"main", "cycle", "forget"}

\* struct E of each test: its Leaf fields.  "forget" has one more leaf of the
\* same graph, which the closure never reads.
LeavesOf(s) ==
    CASE s = "main"   -> {"a", "b", "c", "lhs", "rhs"}
      [] s = "cycle"  -> {"ignite"}
      [] s = "forget" -> {"ignite", "other"}

\* struct E of each test: its Branch fields.
BranchesOf(s) ==
    CASE s = "main"   -> {"sum_a_b", "mul_c_sum_a_b", "sum_dynamic"}
      [] s = "cycle"  -> {"a", "b"}
      [] s = "forget" -> {"a"}

\* graph.leaf(v) of each test.
LeafInit(s, l) ==
    CASE s = "main" /\ l = "a"   -> 1
      [] s = "main" /\ l = "b"   -> 2
      [] s = "main" /\ l = "c"   -> 3
      [] s = "main" /\ l = "lhs" -> "A"
      [] s = "main" /\ l = "rhs" -> "B"
      [] OTHER                   -> 0

\* The values graph.replace is called with, per leaf.
LeafInputs(s, l) ==
    CASE s = "main" /\ l = "a"   -> {1, 20}
      [] s = "main" /\ l = "b"   -> {2, 6}
      [] s = "main" /\ l = "c"   -> {3, 4}
      [] s = "main" /\ l = "lhs" -> {"A", "C"}
      [] s = "main" /\ l = "rhs" -> {"B", "SumAB"}
      [] OTHER                   -> {0, 1}

\* The leaves the caller writes with graph.replace_always.
AlwaysLeaves(s) ==
    CASE s = "main" -> {"a"}
      [] OTHER      -> {"ignite"}

\* graph.branch(v) of each test: the seed.
Seed(s, b) ==
    CASE s = "main" /\ b = "sum_a_b"       -> 1 + 2
      [] s = "main" /\ b = "mul_c_sum_a_b" -> 3 * (1 + 2)
      [] s = "main" /\ b = "sum_dynamic"   -> 1 + 2
      [] OTHER                             -> 0

Op(op, name, on) == [op |-> op, name |-> name, on |-> on]

\* The recompute closures handed to verify, as the operations they perform on
\* the token in order: leaf.read(&mut token), a nested verify, a match on a
\* value read before (on: its position among the values read), token.compute.

\* E::sum_a_b, E::mul_c_sum_a_b and E::sum_dynamic of tests::main
ClosureMain(b) ==
    CASE b = "sum_a_b" ->
            << Op("leaf", "a", 0), Op("leaf", "b", 0), Op("compute", "", 0) >>
      [] b = "mul_c_sum_a_b" ->
            << Op("leaf", "c", 0), Op("branch", "sum_a_b", 0), Op("compute", "", 0) >>
      [] b = "sum_dynamic" ->
            << Op("leaf", "lhs", 0), Op("match", "", 1),
               Op("leaf", "rhs", 0), Op("match", "", 3), Op("compute", "", 0) >>

\* E::a and E::b of tests::panic_if_dependency_graph_contains_a_cycle
ClosureCycle(b) ==
    CASE b = "a" ->
            << Op("leaf", "ignite", 0), Op("branch", "b", 0), Op("compute", "", 0) >>
      [] b = "b" ->
            << Op("branch", "a", 0), Op("compute", "", 0) >>

\* E::a of debug::panic_when_we_forget_to_call_compute: compute is left out
ClosureForget(b) == << Op("leaf", "ignite", 0) >>

Closure(s, b) ==
    CASE s = "main"   -> ClosureMain(b)
      [] s = "cycle"  -> ClosureCycle(b)
      [] s = "forget" -> ClosureForget(b)

\* The arms of `match *self.lhs.read(&mut token)`: what each ABC value reads.
ABCArm(v) ==
    CASE v = "A"     -> Op("leaf", "a", 0)
      [] v = "B"     -> Op("leaf", "b", 0)
      [] v = "C"     -> Op("leaf", "c", 0)
      [] v = "SumAB" -> Op("branch", "sum_a_b", 0)

\* The closures handed to token.compute: the new cached value from the values
\* the recompute closure read, in the order it read them.
MutatorMain(b, loc) ==
    CASE b = "sum_a_b"       -> loc[1] + loc[2]
      [] b = "mul_c_sum_a_b" -> loc[1] * loc[2]
      [] b = "sum_dynamic"   -> loc[2] + loc[4]

MutatorCycle(b, loc) ==
    CASE b = "a" -> loc[1] + loc[2]
      [] b = "b" -> loc[1] + 1

Mutator(s, b, loc) ==
    CASE s = "main"  -> MutatorMain(b, loc)
      [] s = "cycle" -> MutatorCycle(b, loc)

----------------------------------------------------------------------------
(* Graph, Leaf and Branch construction.                                    *)

Leaves == LeavesOf(scenario)
Branches == BranchesOf(scenario)

\* Graph::new
GraphNew == 0

\* Graph::leaf
GraphLeaf(rev, v) == [value |-> v, last_modified |-> rev]

\* a branch that starts at the reserved lowest stamp, below every revision
GraphBranchDirty(rev, v) == [value |-> v, last_verified |-> rev - 1, last_modified |-> rev - 1]

\* Graph::branch
GraphBranch(rev, v) == [value |-> v, last_verified |-> rev, last_modified |-> rev]

Init ==
    /\ scenario \in Scenarios
    /\ revision = GraphNew
    /\ leaf = [l \in Leaves |-> GraphLeaf(GraphNew, LeafInit(scenario, l))]
    /\ branch = [b \in Branches |-> GraphBranch(GraphNew, Seed(scenario, b))]
    /\ cell = [b \in Branches |-> 0]
    /\ stack = << >>
    /\ panic = "none"
    /\ err = "none"
    /\ runs = [b \in Branches |-> 0]
    /\ deps = [b \in Branches |-> {}]
    /\ computedAt = [b \in Branches |-> 0]
    /\ retval = [b \in Branches |-> << >>]
    /\ aborted = {}
    /\ replaced = << >>
    /\ changedAt = [l \in Leaves |-> GraphNew]
    /\ effective = 0
    /\ computes = [b \in Branches |-> 0]
    /\ entry = << >>

----------------------------------------------------------------------------
(* The pieces of the code the steps are made of.                           *)

\* Branch::verify, the message of expect
CyclePanic == "Cycle detected in dependency graph!"

\* Drop for ParentToken, the message of panic!
ForgotPanic == "Forgot to recompute!"

\* an increment by two
GraphIncTwice(rev) == rev + 2

\* an increment that is lost
GraphIncNot(rev) == rev

\* Graph::inc
GraphInc(rev) == rev + 1

\* an equality test that never finds the values equal
SameValueNever(l, v) == FALSE

\* Graph::replace, the test that makes it a no-op
SameValue(l, v) == v = leaf[l].value

\* a write that stamps every leaf of the graph
StampedAll(l, v, rev) ==
    [k \in DOMAIN leaf |->
        IF k = l THEN [value |-> v, last_modified |-> rev]
        ELSE [leaf[k] EXCEPT !.last_modified = rev]]

\* a leaf stamped before the revision was advanced
StampedBehind(l, v, rev) ==
    [leaf EXCEPT ![l] = [value |-> v, last_modified |-> rev - 1]]

\* Graph::replace, the leaf after `leaf.last_modified = self.revision` and
\* mem::replace
Stamped(l, v, rev) ==
    [leaf EXCEPT ![l] = [value |-> v, last_modified |-> rev]]

\* What a call of method m on leaf l leaves with the caller: the leaf, the
\* argument, the returned value and the method.
Call(m, l, v, ret) == <<l, v, ret, m>>

\* The bookkeeping of a step that writes leaf l: whether its value changed.
Changes(l) ==
    IF leaf'[l].value # leaf[l].value
    THEN /\ changedAt' = [changedAt EXCEPT ![l] = revision']
         /\ effective' = effective + 1
    ELSE UNCHANGED <<changedAt, effective>>

\* RefCell::try_borrow_mut succeeds: nothing borrows the cell
CanBorrowMut(b) == cell[b] = 0

\* a shared borrow that is granted while a RefMut is alive
CanBorrowAlways(b) == TRUE

\* a shared borrow that is refused while any borrow of the cell is alive
CanBorrowUnshared(b) == cell[b] = 0

\* RefCell::try_borrow succeeds: no RefMut is alive
CanBorrow(b) == cell[b] >= 0

\* a RefMut that is leaked instead of dropped
ReleaseNot(b) == cell

\* The RefMut of a ParentToken is dropped: the cell is unborrowed again.
Release(b) == [cell EXCEPT ![b] = 0]

\* a staleness test that also fires when the branch is already verified
StaleOrEqual(b) == branch[b].last_verified <= revision

\* a staleness test with its operands swapped
StaleSwapped(b) == revision < branch[b].last_verified

\* a staleness test on the wrong stamp
StaleByModified(b) == branch[b].last_modified < revision

\* Branch::verify, `borrow.last_verified < graph.revision`
Stale(b) == branch[b].last_verified < revision

\* a verify that stamps last_verified with the branch's other revision
MarkVerifiedAtModified(b) ==
    [branch EXCEPT ![b].last_verified = branch[b].last_modified]

\* a verify that forgets to stamp last_verified
MarkVerifiedNot(b) == branch

\* Branch::verify, `borrow.last_verified = graph.revision`
MarkVerified(b) == [branch EXCEPT ![b].last_verified = revision]

\* a token seeded with the graph's revision instead of the branch's stamp
NewTokenAtRevision(b) == revision

\* Branch::verify, the ParentToken a recomputation starts with
NewToken(b) == branch[b].last_modified

\* update that adds the revision to the running value
TokenUpdateSum(tok, rev) == tok + rev

\* update that overwrites the running value with the last revision read
TokenUpdateLast(tok, rev) == rev

\* update that never raises the running value
TokenUpdateKeeps(tok, rev) == tok

\* Token for &mut ParentToken: update
TokenUpdate(tok, rev) == IF tok < rev THEN rev ELSE tok

\* compute that runs the mutator whatever the token says
NeedsComputeAlways(b, tok) == TRUE

\* ParentToken::compute, `self.borrow.last_modified < self.last_modified`
NeedsCompute(b, tok) == branch[b].last_modified < tok

\* a commit that writes the token's stamp into last_verified too
CommitStampsVerified(b, tok, loc) ==
    [branch EXCEPT ![b].last_modified = tok,
                   ![b].last_verified = tok,
                   ![b].value = Mutator(scenario, b, loc)]

\* ParentToken::compute, the branch after the commit
Commit(b, tok, loc) ==
    [branch EXCEPT ![b].last_modified = tok,
                   ![b].value = Mutator(scenario, b, loc)]

\* a Drop whose check is compiled out
ForgotNever(b, tok) == FALSE

\* Drop for ParentToken, `self.borrow.last_modified < self.last_modified`
ForgotToRecompute(b, tok) == branch[b].last_modified < tok

\* BranchRefs alive outside the running call
HeldRefs(b) == IF cell[b] > 0 THEN cell[b] ELSE 0

RECURSIVE SumOver(_, _)
SumOver(f, S) ==
    IF S = {} THEN 0
    ELSE LET x == CHOOSE y \in S : TRUE IN f[x] + SumOver(f, S \ {x})

TotalHeld == SumOver([b \in Branches |-> HeldRefs(b)], Branches)

Top == stack[Len(stack)]
Pop == SubSeq(stack, 1, Len(stack) - 1)
SetTop(f) == [stack EXCEPT ![Len(stack)] = f]

Frame(b, stage, tok) ==
    [br |-> b, stage |-> stage, pc |-> 1, tok |-> tok, loc |-> << >>, reads |-> {}]

\* The operation the closure of frame f performs next (a match already resolved
\* to the arm it takes), or "end" when the closure has run to its end.
NextOp(f) ==
    LET c == Closure(scenario, f.br) IN
    IF f.pc > Len(c) THEN Op("end", "", 0)
    ELSE IF c[f.pc].op = "match" THEN ABCArm(f.loc[c[f.pc].on])
    ELSE c[f.pc]

InClosure == panic = "none" /\ stack # << >> /\ Top.stage = "closure"

\* What a top-level call finds: every BranchInner, and per branch the closure
\* invocations and mutator runs counted so far.
Found == [branch |-> branch, runs |-> runs, computes |-> computes]

\* Branch::verify up to the end of its match, on a stack stk of callers:
\* try_borrow_mut, the staleness test, and the start of the closure.
VerifyEnter(b, stk) ==
    IF CanBorrowMut(b) /\ Stale(b)
    THEN /\ branch' = MarkVerified(b)
         /\ cell' = [cell EXCEPT ![b] = -1]
         /\ stack' = Append(stk, Frame(b, "closure", NewToken(b)))
         /\ runs' = [runs EXCEPT ![b] = @ + 1]
    ELSE /\ stack' = Append(stk, Frame(b, "reborrow", 0))
         /\ UNCHANGED <<branch, cell, runs>>

----------------------------------------------------------------------------
(* The steps.                                                              *)

\* graph.replace(&mut leaf, v) by the top-level caller.  It needs &mut Graph,
\* so no BranchRef (which borrows the graph) is alive.
Replace(l, v) ==
    /\ stack = << >> /\ panic = "none" /\ TotalHeld = 0
    /\ IF SameValue(l, v)
       THEN /\ replaced' = Call("replace", l, v, v)
            /\ UNCHANGED <<revision, leaf, err, runs, retval, computes>>
       ELSE /\ revision < MaxRev
            /\ revision' = GraphInc(revision)
            /\ leaf' = Stamped(l, v, revision')
            /\ replaced' = Call("replace", l, v, leaf[l].value)
            /\ err' = "none"
            /\ runs' = [b \in Branches |-> 0]
            /\ retval' = [b \in Branches |-> << >>]
            /\ computes' = [b \in Branches |-> 0]
    /\ Changes(l)
    /\ UNCHANGED <<scenario, branch, cell, stack, panic, deps, computedAt, aborted, entry>>

\* The top-level caller calls e.b(RootToken).
TopVerify(b) ==
    /\ stack = << >> /\ panic = "none" /\ TotalHeld < MaxHeld
    /\ VerifyEnter(b, << >>)
    /\ err' = "none"
    /\ replaced' = << >>
    /\ entry' = Found
    /\ UNCHANGED <<scenario, revision, leaf, panic, deps, computedAt, retval, aborted,
                   changedAt, effective, computes>>

\* The closure reads a leaf: Leaf::read.
ReadLeaf ==
    /\ InClosure /\ NextOp(Top).op = "leaf"
    /\ LET l == NextOp(Top).name IN
       stack' = SetTop([Top EXCEPT !.tok = TokenUpdate(@, leaf[l].last_modified),
                                   !.loc = Append(@, leaf[l].value),
                                   !.pc = @ + 1,
                                   !.reads = @ \cup {l}])
    /\ UNCHANGED <<scenario, revision, leaf, branch, cell, panic, err, ghost, replaced>>

\* The closure reads a branch: a nested Branch::verify on the closure's token.
ReadBranch ==
    /\ InClosure /\ NextOp(Top).op = "branch"
    /\ VerifyEnter(NextOp(Top).name, stack)
    /\ UNCHANGED <<scenario, revision, leaf, panic, err, deps, computedAt, retval, aborted,
                   replaced, changedAt, effective, computes, entry>>

\* The closure calls token.compute: the commit, then the token is dropped and
\* with it the RefMut.
Compute ==
    /\ InClosure /\ NextOp(Top).op = "compute"
    /\ LET b == Top.br IN
       /\ IF NeedsCompute(b, Top.tok)
          THEN /\ branch' = Commit(b, Top.tok, Top.loc)
               /\ computedAt' = [computedAt EXCEPT ![b] = revision]
               /\ computes' = [computes EXCEPT ![b] = @ + 1]
          ELSE UNCHANGED <<branch, computedAt, computes>>
       /\ cell' = Release(b)
       /\ deps' = [deps EXCEPT ![b] = Top.reads]
       /\ aborted' = aborted \ {b}
       /\ stack' = SetTop([Top EXCEPT !.stage = "reborrow"])
    /\ UNCHANGED <<scenario, revision, leaf, panic, err, runs, retval,
                   replaced, changedAt, effective, entry>>

\* The closure returns without token.compute: the token is dropped there.
ClosureEnd ==
    /\ InClosure /\ NextOp(Top).op = "end"
    /\ LET b == Top.br IN
       IF ForgotToRecompute(b, Top.tok)
       THEN /\ panic' = ForgotPanic
            /\ UNCHANGED <<cell, stack, deps, aborted>>
       ELSE /\ cell' = Release(b)
            /\ deps' = [deps EXCEPT ![b] = Top.reads]
            /\ aborted' = aborted \ {b}
            /\ stack' = SetTop([Top EXCEPT !.stage = "reborrow"])
            /\ UNCHANGED panic
    /\ UNCHANGED <<scenario, revision, leaf, branch, err, runs, computedAt, retval,
                   replaced, changedAt, effective, computes, entry>>

\* Branch::verify after its match: try_borrow().expect(..), token.update and
\* the BranchRef.  A nested call's BranchRef is a temporary of the closure's
\* statement; a top-level call's stays alive until the caller drops it.
Return ==
    /\ panic = "none" /\ stack # << >> /\ Top.stage = "reborrow"
    /\ LET b == Top.br IN
       IF ~CanBorrow(b)
       THEN /\ panic' = CyclePanic
            /\ UNCHANGED <<cell, stack, retval, entry>>
       ELSE /\ panic' = panic
            /\ retval' = [retval EXCEPT ![b] = <<branch[b].value, branch[b].last_modified>>]
            /\ IF Len(stack) = 1
               THEN /\ stack' = << >>
                    /\ cell' = [cell EXCEPT ![b] = @ + 1]
                    /\ entry' = << >>
               ELSE /\ LET caller == stack[Len(stack) - 1] IN
                       stack' = [Pop EXCEPT ![Len(stack) - 1] =
                                    [caller EXCEPT
                                        !.tok = TokenUpdate(@, branch[b].last_modified),
                                        !.loc = Append(@, branch[b].value),
                                        !.pc = @ + 1,
                                        !.reads = @ \cup deps[b]]]
                    /\ UNCHANGED <<cell, entry>>
    /\ UNCHANGED <<scenario, revision, leaf, branch, err, runs, deps, computedAt, aborted,
                   replaced, changedAt, effective, computes>>

\* A panic unwinds one activation: a ParentToken still alive in it is dropped
\* (its Drop checks nothing while panicking) and releases the RefMut.  Past
\* the outermost activation the top-level call has failed with the message.
Unwind ==
    /\ panic # "none" /\ stack # << >>
    /\ IF Top.stage = "closure"
       THEN /\ cell' = Release(Top.br)
            /\ aborted' = IF panic = CyclePanic
                          THEN aborted \cup {Top.br} ELSE aborted
       ELSE UNCHANGED <<cell, aborted>>
    /\ stack' = Pop
    /\ IF Len(stack) = 1
       THEN err' = panic /\ panic' = "none" /\ entry' = << >>
       ELSE UNCHANGED <<err, panic, entry>>
    /\ UNCHANGED <<scenario, revision, leaf, branch, runs, deps, computedAt, retval,
                   replaced, changedAt, effective, computes>>

\* graph.replace_always(&mut leaf, v) by the top-level caller: replace without
\* the equality test.
ReplaceAlways(l, v) ==
    /\ stack = << >> /\ panic = "none" /\ TotalHeld = 0
    /\ revision < MaxRev
    /\ revision' = GraphInc(revision)
    /\ leaf' = Stamped(l, v, revision')
    /\ replaced' = Call("replace_always", l, v, leaf[l].value)
    /\ err' = "none"
    /\ runs' = [b \in Branches |-> 0]
    /\ retval' = [b \in Branches |-> << >>]
    /\ computes' = [b \in Branches |-> 0]
    /\ Changes(l)
    /\ UNCHANGED <<scenario, branch, cell, stack, panic, deps, computedAt, aborted, entry>>

\* The top-level caller drops a BranchRef it holds.
DropRef(b) ==
    /\ stack = << >> /\ panic = "none" /\ cell[b] > 0
    /\ cell' = [cell EXCEPT ![b] = @ - 1]
    /\ UNCHANGED <<scenario, revision, leaf, branch, stack, panic, err, ghost, replaced>>

Next ==
    \/ \E l \in Leaves : \E v \in LeafInputs(scenario, l) : Replace(l, v)
    \/ \E b \in Branches : TopVerify(b)
    \/ ReadLeaf
    \/ ReadBranch
    \/ Compute
    \/ ClosureEnd
    \/ Return
    \/ Unwind
    \/ \E b \in Branches : DropRef(b)

Spec == Init /\ [][Next]_vars

\* A call runs synchronously on one thread: once started, its next operation
\* is always taken.  Only the top-level caller's moves are left unforced.
CallStep == ReadLeaf \/ ReadBranch \/ Compute \/ ClosureEnd \/ Return \/ Unwind

FairSpec == Spec /\ WF_vars(CallStep)

\* The same program with a caller that also uses graph.replace_always.
NextAlways ==
    \/ Next
    \/ \E l \in AlwaysLeaves(scenario) :
            \E v \in LeafInputs(scenario, l) : ReplaceAlways(l, v)

SpecAlways == Init /\ [][NextAlways]_vars

----------------------------------------------------------------------------
(* Vocabulary of the properties.                                           *)

Idle == stack = << >> /\ panic = "none"

\* The derivation functions of the main graph on the current leaf values.
DeriveSumAB == leaf["a"].value + leaf["b"].value

DeriveSelect(v) ==
    CASE v = "A"     -> leaf["a"].value
      [] v = "B"     -> leaf["b"].value
      [] v = "C"     -> leaf["c"].value
      [] v = "SumAB" -> DeriveSumAB

Derive(b) ==
    CASE b = "sum_a_b"       -> DeriveSumAB
      [] b = "mul_c_sum_a_b" -> leaf["c"].value * DeriveSumAB
      [] b = "sum_dynamic"   -> DeriveSelect(leaf["lhs"].value) + DeriveSelect(leaf["rhs"].value)

\* verify has returned b's cached value since the last effective replace.
Returned(b) == retval[b] # << >>

\* The step is the commit of b's running closure.
AtCompute(b) == InClosure /\ Top.br = b /\ NextOp(Top).op = "compute"

\* In the step, b's compute mutator runs.
MutatorRuns(b) == computedAt'[b] # computedAt[b]

\* The step enters verify on b (from the top level or from a closure).
Enters(b) ==
    /\ panic = "none"
    /\ Len(stack') = Len(stack) + 1
    /\ stack'[Len(stack')].br = b

\* The step is a normal return of verify on b.
Returns(b) ==
    /\ panic = "none" /\ stack # << >> /\ Top.stage = "reborrow" /\ Top.br = b
    /\ panic' = "none"

\* The step enters verify on b and starts its recompute closure.
Invokes(b) ==
    /\ Enters(b)
    /\ stack'[Len(stack')].stage = "closure"
    /\ runs'[b] = runs[b] + 1

\* b is as Graph::branch made it and verify has not returned it since the
\* last effective replace.
Fresh(b) ==
    /\ branch[b] = GraphBranch(GraphNew, Seed(scenario, b))
    /\ ~Returned(b)

\* The operations the closure of frame f has performed so far on its token,
\* each match resolved to the arm it took.
OpsDone(f) ==
    [i \in 1..(f.pc - 1) |->
        LET o == Closure(scenario, f.br)[i] IN
        IF o.op = "match" THEN ABCArm(f.loc[o.on]) ELSE o]

\* The last_modified of the leaf or branch an operation read.
StampOf(o) ==
    IF o.op = "leaf" THEN leaf[o.name].last_modified
    ELSE branch[o.name].last_modified

\* The last_modified of every dependency frame f's closure has read.
ReadStamps(f) == {StampOf(OpsDone(f)[i]) : i \in 1..(f.pc - 1)}

Max(S) == CHOOSE x \in S : \A y \in S : y <= x

\* The maximum of the branch's own last_modified and those read.
Aggregate(f) == Max({branch[f.br].last_modified} \cup ReadStamps(f))

\* The revisions frame f's closure has passed to its token, in call order.
StampSeq(f) == [i \in 1..(f.pc - 1) |-> StampOf(OpsDone(f)[i])]

\* A token after the updates of sequence s, applied in order.
RECURSIVE FoldUpdate(_, _)
FoldUpdate(tok, s) ==
    IF s = << >> THEN tok
    ELSE FoldUpdate(TokenUpdate(tok, Head(s)), Tail(s))

\* The values a Revision takes in a run.
Revisions == GraphNew..MaxRev

\* The step is a graph.replace call on leaf l (a call that repeats the caller's
\* last call with no effect is a stuttering step).
ReplaceCalled(l) ==
    /\ replaced' # << >> /\ replaced' # replaced
    /\ replaced'[1] = l

\* The step is a graph.replace_always call on leaf l.
AlwaysCalled(l) ==
    /\ replaced' # << >> /\ (replaced' # replaced \/ revision' # revision)
    /\ replaced'[1] = l /\ replaced'[4] = "replace_always"

\* The argument and the returned value of the call made in the step.
CallArg == replaced'[2]
CallRet == replaced'[3]

----------------------------------------------------------------------------
\* C1 (freshness): in the acyclic graph whose closures are pure and always call
\* compute and whose seeds equal their derivations, every value verify has
\* returned (to the top level or to a closure) since the last effective replace
\* equals the branch's derivation function on the current leaf values.
C1_Freshness ==
    scenario = "main" =>
        \A b \in Branches : Returned(b) => retval[b][1] = Derive(b)

\* sum_dynamic, reading sum_a_b through its selector, was recomputed at the
\* second revision and its value is held by the top-level caller.
C1_Witness ==
    /\ scenario = "main" /\ Idle /\ revision = 2
    /\ leaf["rhs"].value = "SumAB"
    /\ computedAt["sum_dynamic"] = 2 /\ computedAt["sum_a_b"] = 2
    /\ cell["sum_dynamic"] > 0

----------------------------------------------------------------------------
\* The leaves the seeds of the main graph were derived from at creation.
SeedDeps(b) ==
    CASE b = "sum_a_b"       -> {"a", "b"}
      [] b = "mul_c_sum_a_b" -> {"c", "a", "b"}
      [] b = "sum_dynamic"   -> {"lhs", "rhs", "a", "b"}

\* The leaves b's cached value was last computed from, transitively: those
\* its last finished closure run read, or for a seed never checked since
\* creation those it was derived from.
PrevDeps(b) ==
    IF scenario = "main" /\ computedAt[b] = 0 /\ deps[b] = {}
    THEN SeedDeps(b) ELSE deps[b]

\* The leaves among them effectively replaced after b's cached value was last
\* computed (a seed is computed at creation, revision 0).
StaleDeps(b) == {l \in PrevDeps(b) : leaf[l].last_modified > computedAt[b]}

\* b has a previous computation to compare with: a recomputation, or in the
\* main graph the seed, which equals the derivation at creation.
HasPrev(b) == computedAt[b] > 0 \/ scenario = "main"

\* At a commit the mutator runs, and last_modified changes, exactly when a
\* leaf of the previous read set was replaced since; otherwise nothing of the
\* branch changes and its last_verified is the current revision.
C2_ExactStep ==
    \A b \in Branches :
        (AtCompute(b) /\ HasPrev(b)) =>
            /\ MutatorRuns(b) <=> StaleDeps(b) # {}
            /\ (branch'[b].last_modified # branch[b].last_modified) <=> StaleDeps(b) # {}
            /\ StaleDeps(b) = {} =>
                    /\ branch'[b] = branch[b]
                    /\ branch[b].last_verified = revision

\* A verify that has returned leaves no replaced leaf of the read set behind.
C2_NothingMissed ==
    \A b \in Branches :
        (Returned(b) /\ HasPrev(b)) => StaleDeps(b) = {}

\* C2 (exact recomputation): on a verify call the branch's cached value is
\* recomputed (the compute mutator runs and last_modified changes) if and only
\* if some leaf the branch transitively read in its previous recomputation was
\* effectively replaced since; replacing a leaf outside that set leaves the
\* cached value and last_modified unchanged on the next verify, although the
\* staleness check runs and last_verified advances.
C2_ExactRecomputation == []C2_NothingMissed /\ [][C2_ExactStep]_vars

\* sum_a_b was recomputed at revision 1; then c, which it does not read, was
\* replaced, and the next verify ran its closure without running the mutator.
C2_Witness ==
    /\ scenario = "main" /\ Idle /\ revision = 2
    /\ leaf["c"].last_modified = 2
    /\ computedAt["sum_a_b"] = 1 /\ runs["sum_a_b"] = 1
    /\ branch["sum_a_b"].last_verified = 2
    /\ branch["sum_a_b"].last_modified = 1
    /\ Returned("sum_a_b")

----------------------------------------------------------------------------
\* The leaves behind the dependency an ABC value names.
SelectedLeaves(v) ==
    CASE v = "A"     -> {"a"}
      [] v = "B"     -> {"b"}
      [] v = "C"     -> {"c"}
      [] v = "SumAB" -> {"a", "b"}

\* The selectors of sum_dynamic and what they currently select.
DynSelected ==
    {"lhs", "rhs"} \cup SelectedLeaves(leaf["lhs"].value)
                   \cup SelectedLeaves(leaf["rhs"].value)

\* Effectively replaced since sum_dynamic was last computed (its seed counts
\* as computed at creation, revision 0).
DynChanged(l) == leaf[l].last_modified > computedAt["sum_dynamic"]

C3_DynStep ==
    (scenario = "main" /\ AtCompute("sum_dynamic")) =>
        /\ (\E l \in DynSelected : DynChanged(l)) => MutatorRuns("sum_dynamic")
        /\ (\A l \in Leaves : DynChanged(l) => l \notin DynSelected)
                => /\ ~MutatorRuns("sum_dynamic")
                   /\ branch'["sum_dynamic"] = branch["sum_dynamic"]

\* C3 (dynamic dependencies): at the commit of sum_dynamic, which reads each
\* selector and then only what it names, the mutator runs if a selector or a
\* selected dependency (a leaf, or the branch sum_a_b through its leaves) was
\* replaced since sum_dynamic was last computed, and does not run if only
\* unselected dependencies were.
C3_DynamicDependencies == [][C3_DynStep]_vars

\* sum_dynamic was recomputed with lhs = C; then a, now unselected, was
\* replaced, and the next verify ran the closure without running the mutator.
C3_Witness ==
    /\ scenario = "main" /\ Idle /\ revision = 2
    /\ leaf["lhs"].value = "C" /\ leaf["lhs"].last_modified = 1
    /\ leaf["a"].last_modified = 2
    /\ computedAt["sum_dynamic"] = 1 /\ runs["sum_dynamic"] = 1
    /\ Returned("sum_dynamic")

----------------------------------------------------------------------------
\* The cycle of the cyclic graph: a reads b, b reads a.
CycleLen == Cardinality(BranchesOf("cycle"))

\* The activations on the stack whose closure is running.
ClosureFrames == {i \in 1..Len(stack) : stack[i].stage = "closure"}

\* No verify recurses deeper than the cycle: every branch is being recomputed
\* at most once, and only the re-entering verify call sits on top of them.
C4_Depth ==
    scenario = "cycle" =>
        /\ Cardinality(ClosureFrames) <= CycleLen
        /\ Len(stack) <= CycleLen + 1
        /\ \A i, j \in ClosureFrames : stack[i].br = stack[j].br => i = j
        /\ ~(InClosure /\ NextOp(Top).op \in {"compute", "end"})

\* A top-level call that started a recomputation ends with the cycle error,
\* and the error is raised by a verify that found its branch mutably borrowed.
C4_FailStep ==
    scenario = "cycle" =>
        /\ (stack # << >> /\ stack' = << >> /\ stack[1].stage = "closure")
                => err' = CyclePanic
        /\ (panic = "none" /\ panic' # "none")
                => /\ panic' = CyclePanic
                   /\ Top.stage = "reborrow" /\ cell[Top.br] = -1
                   /\ \E i \in ClosureFrames : stack[i].br = Top.br

C4_Terminates == (scenario = "cycle" /\ stack # << >>) ~> (stack = << >>)

\* C4 (cycle detection): in the cyclic graph a verify call that starts the
\* recomputation of a branch fails with "Cycle detected in dependency graph!"
\* on that call, never recursing deeper than the cycle, and it terminates.
C4_CycleDetection == []C4_Depth /\ [][C4_FailStep]_vars /\ C4_Terminates

\* A top-level verify in the cyclic graph has failed with the cycle error.
C4_Witness ==
    /\ scenario = "cycle" /\ Idle /\ err = CyclePanic
    /\ revision = 1 /\ runs["a"] = 1 /\ runs["b"] = 1

----------------------------------------------------------------------------
C5_MissedCommitStep ==
    (InClosure /\ NextOp(Top).op = "end") => panic' = ForgotPanic

\* C5 (missed commit): whenever a recompute closure returns without having
\* called compute, the verify call fails there with the missed-commit panic,
\* whether or not a dependency it read had changed.
C5_MissedCommitFails == [][C5_MissedCommitStep]_vars

----------------------------------------------------------------------------
\* What the closures of the cyclic graph compute from the current values of
\* what they read.
CycleDerive(b) ==
    CASE b = "a" -> leaf["ignite"].value + branch["b"].value
      [] b = "b" -> branch["a"].value + 1

\* C6 (no stale state after a cycle): a branch whose recomputation was aborted
\* by a cycle error is never served from its old cache: every value a later
\* verify returns for it is consistent with the current values of its
\* dependencies.
C6_NoStaleAfterCycle ==
    scenario = "cycle" =>
        \A b \in Branches :
            (b \in aborted /\ Returned(b)) => retval[b][1] = CycleDerive(b)

----------------------------------------------------------------------------
C7_Step ==
    \A b \in Branches :
        /\ (Enters(b) /\ Returned(b)) =>
                /\ runs'[b] = runs[b]
                /\ stack'[Len(stack')].stage = "reborrow"
                /\ branch' = branch
        /\ (Returns(b) /\ Returned(b)) =>
                /\ branch[b].value = retval[b][1]
                /\ retval'[b] = retval[b]

C7_AtMostOne == \A b \in Branches : Returned(b) => runs[b] <= 1

\* C7 (idempotence): a verify call on a branch for which verify has already
\* returned since the last effective replace does not invoke the recompute
\* closure and returns the same value; at most one recompute happens across
\* the calls.
C7_Idempotence == []C7_AtMostOne /\ [][C7_Step]_vars

\* Two top-level verify calls on sum_a_b at one revision have both returned
\* (both references are held) and its closure ran once.
C7_Witness ==
    /\ scenario = "main" /\ Idle /\ revision = 1
    /\ cell["sum_a_b"] = 2 /\ runs["sum_a_b"] = 1
    /\ computedAt["sum_a_b"] = 1

----------------------------------------------------------------------------
C8_Once == \A b \in Branches : runs[b] <= 1

C8_Step ==
    \A b \in Branches :
        (Returns(b) /\ Len(stack) >= 2) =>
            LET caller == stack[Len(stack) - 1]
                after  == stack'[Len(stack) - 1]
            IN  /\ after.tok = (IF caller.tok < branch[b].last_modified
                                THEN branch[b].last_modified ELSE caller.tok)
                /\ after.loc = Append(caller.loc, branch[b].value)
                /\ Returned(b) =>
                        retval[b] = <<branch[b].value, branch[b].last_modified>>

\* C8 (diamond reuse): within one graph revision a branch's recompute closure
\* is invoked at most once, and every closure that reads the branch folds the
\* same last_modified into its token and reads the same cached value.
C8_DiamondReuse == []C8_Once /\ [][C8_Step]_vars

\* At one revision sum_a_b was recomputed once and both mul_c_sum_a_b and
\* sum_dynamic were recomputed from it.
C8_Witness ==
    /\ scenario = "main" /\ Idle /\ revision = 2
    /\ leaf["rhs"].value = "SumAB"
    /\ runs["sum_a_b"] = 1
    /\ computedAt["sum_a_b"] = 2
    /\ computedAt["mul_c_sum_a_b"] = 2
    /\ computedAt["sum_dynamic"] = 2

----------------------------------------------------------------------------
\* C9: in every reachable state, also in the middle of a recomputation and
\* right after a commit, every branch has last_verified >= last_modified.
C9_VerifiedNotBehind ==
    \A b \in Branches : branch[b].last_verified >= branch[b].last_modified

\* In the middle of a call: a nested branch has just committed and raised its
\* last_modified to the current revision.
C9_Witness ==
    /\ Len(stack) >= 2 /\ panic = "none" /\ Top.stage = "reborrow"
    /\ revision >= 1
    /\ computedAt[Top.br] = revision
    /\ branch[Top.br].last_modified = revision

----------------------------------------------------------------------------
C10_Step ==
    /\ revision' >= revision
    /\ \A b \in Branches :
            /\ branch'[b].last_modified >= branch[b].last_modified
            /\ branch'[b].last_verified >= branch[b].last_verified

\* C10 (monotonicity): no step of any replace or verify call lowers a
\* branch's last_modified or last_verified, or the graph's revision.
C10_Monotonicity == [][C10_Step]_vars

\* After two effective replaces: sum_a_b was recomputed at revision 2 while
\* mul_c_sum_a_b still carries the stamps of revision 1.
C10_Witness ==
    /\ scenario = "main" /\ Idle /\ revision = 2
    /\ branch["sum_a_b"].last_modified = 2
    /\ branch["mul_c_sum_a_b"].last_modified = 1
    /\ branch["mul_c_sum_a_b"].last_verified = 1

----------------------------------------------------------------------------
C11_Step ==
    \A l \in Leaves :
        (ReplaceCalled(l) /\ CallArg # leaf[l].value) =>
            /\ revision' = revision + 1
            /\ leaf'[l].last_modified = revision'
            /\ leaf'[l].value = CallArg
            /\ CallRet = leaf[l].value
            /\ \A k \in Leaves \ {l} : leaf'[k] = leaf[k]
            /\ branch' = branch

\* C11 (replace, effective): graph.replace with a value different from the
\* leaf's current value advances the graph's revision by exactly one, sets the
\* leaf's last_modified to the new revision, stores the new value and returns
\* the leaf's previous value; no other leaf and no branch is touched.
C11_ReplaceEffective == [][C11_Step]_vars

\* The caller has just replaced b = 2 by 6 as the second effective replace.
C11_Witness ==
    /\ scenario = "main" /\ Idle
    /\ replaced = Call("replace", "b", 6, 2)
    /\ revision = 2
    /\ leaf["b"] = [value |-> 6, last_modified |-> 2]

----------------------------------------------------------------------------
\* The caller's last call returned its own argument: the leaf held that value.
NoOpCall == replaced # << >> /\ replaced[2] = replaced[3]

C12_NoOpStep ==
    \A l \in Leaves :
        (ReplaceCalled(l) /\ CallArg = leaf[l].value) =>
            /\ revision' = revision
            /\ leaf' = leaf
            /\ branch' = branch /\ cell' = cell
            /\ CallRet = leaf[l].value

C12_NextVerifyStep ==
    \A b \in Branches :
        (NoOpCall /\ Enters(b) /\ stack'[Len(stack')].stage = "closure") =>
            \E l \in Leaves : changedAt[l] > branch[b].last_verified

\* C12 (replace, no-op): graph.replace with a value equal to the leaf's current
\* value changes neither the revision nor any leaf or branch and returns a
\* value equal to the leaf's; the verify that follows it invokes a recompute
\* closure only if some leaf's value has changed since that branch was last
\* verified, never because of this call.
C12_ReplaceNoOp == [][C12_NoOpStep /\ C12_NextVerifyStep]_vars

\* b was replaced by 6 and sum_a_b recomputed; then the caller replaced b by
\* 6 again.
C12_Witness ==
    /\ scenario = "main" /\ Idle
    /\ replaced = Call("replace", "b", 6, 6)
    /\ revision = 1 /\ leaf["b"] = [value |-> 6, last_modified |-> 1]
    /\ runs["sum_a_b"] = 1 /\ Returned("sum_a_b")
    /\ branch["sum_a_b"].last_verified = 1

----------------------------------------------------------------------------
\* Every leaf carries the revision of the last call that changed its value (of
\* its creation if none did), the revision counts exactly those calls, and no
\* two leaves share a stamp other than that of their creation.
C13_Stamps ==
    /\ revision = GraphNew + effective
    /\ \A l \in Leaves :
            /\ leaf[l].last_modified = changedAt[l]
            /\ leaf[l].last_modified <= revision
    /\ \A k, l \in Leaves :
            (k # l /\ leaf[k].last_modified = leaf[l].last_modified)
                => leaf[l].last_modified = GraphNew

\* A call that changes a leaf's value gives it a stamp above every stamp any
\* leaf of the graph has carried so far.
C13_FreshStampStep ==
    \A l \in Leaves :
        leaf'[l].value # leaf[l].value =>
            \A k \in Leaves : leaf'[l].last_modified > leaf[k].last_modified

\* C13 (leaf stamping): each leaf's last_modified equals the value the graph's
\* revision took at that leaf's most recent value-changing replace, or at its
\* creation if there was none; it never exceeds graph.revision, and two
\* different value-changing replaces never produce the same stamp.
C13_LeafStamping == []C13_Stamps /\ [][C13_FreshStampStep]_vars

\* b was replaced by 6 at revision 1, a by 20 at revision 2, and then b was
\* written again with the value it holds.
C13_Witness ==
    /\ scenario = "main" /\ Idle
    /\ replaced = Call("replace", "b", 6, 6)
    /\ revision = 2 /\ effective = 2
    /\ leaf["b"].last_modified = 1 /\ leaf["a"].last_modified = 2
    /\ leaf["c"].last_modified = 0

----------------------------------------------------------------------------
C14_AlwaysStep ==
    \A l \in Leaves :
        AlwaysCalled(l) =>
            /\ revision' = revision + 1
            /\ leaf'[l].last_modified = revision'
            /\ leaf'[l].value = CallArg
            /\ CallRet = leaf[l].value
            /\ \A k \in Leaves \ {l} : leaf'[k] = leaf[k]
            /\ branch' = branch

\* The leaves stamped at the current revision by a write that did not change
\* their value.
Forced == {l \in Leaves : leaf[l].last_modified = revision /\ changedAt[l] < revision}

C14_ForcedStep ==
    \A b \in Branches :
        (AtCompute(b) /\ Top.reads \cap Forced # {}) =>
            /\ MutatorRuns(b)
            /\ branch'[b].last_modified = revision

\* C14 (replace_always): graph.replace_always behaves like an effective
\* graph.replace whatever the value: it advances the revision by one, stamps
\* the leaf and returns the previous value, also when the new value equals the
\* current one, and a branch that reads the leaf (directly or through another
\* branch) runs its compute mutator on its next verify.
C14_ReplaceAlways == [][C14_AlwaysStep /\ C14_ForcedStep]_vars

\* replace_always wrote a = 1 over a = 1 at revision 1; the next verify of
\* mul_c_sum_a_b recomputed sum_a_b and itself.
C14_Witness ==
    /\ scenario = "main" /\ Idle /\ revision = 1
    /\ leaf["a"] = [value |-> 1, last_modified |-> 1] /\ changedAt["a"] = 0
    /\ computedAt["sum_a_b"] = 1 /\ computedAt["mul_c_sum_a_b"] = 1
    /\ Returned("mul_c_sum_a_b")

----------------------------------------------------------------------------
\* C15 as stated (first access always computes): the first verify call on a
\* freshly constructed branch runs its recompute closure, also when no leaf
\* has been replaced since the branch was constructed.
C15_FirstAccessComputes ==
    [][\A b \in Branches : (Enters(b) /\ Fresh(b)) => Invokes(b)]_vars

C15_FirstStep ==
    \A b \in Branches :
        (Enters(b) /\ Fresh(b)) =>
            /\ Invokes(b) <=> effective > 0
            /\ ~Invokes(b) => /\ branch' = branch
                              /\ stack'[Len(stack')].stage = "reborrow"

\* C15 as amended: a freshly constructed branch compares as verified at the
\* revision of its construction: the first verify call on it runs its
\* recompute closure if and only if a leaf has been effectively replaced
\* since the branch was constructed.
C15_FirstAccessAfterReplace == [][C15_FirstStep]_vars

\* The worked scenario: the first read of mul_c_sum_a_b returned the seed 9
\* with no recomputation; after b was replaced by 6, the next read recomputed
\* sum_a_b and mul_c_sum_a_b once each and returned 21.
C15_Witness ==
    /\ scenario = "main" /\ Idle /\ revision = 1
    /\ leaf["b"].value = 6
    /\ runs["sum_a_b"] = 1 /\ runs["mul_c_sum_a_b"] = 1
    /\ computedAt["sum_a_b"] = 1 /\ computedAt["mul_c_sum_a_b"] = 1
    /\ retval["mul_c_sum_a_b"] = <<21, 1>>

----------------------------------------------------------------------------
\* C16 (seed is trusted): a branch starts with last_verified = last_modified
\* = the graph's revision at its creation, and as long as no leaf has been
\* effectively replaced a verify call returns the seed without invoking the
\* recompute closure: no closure has run, every branch is as constructed and
\* every value verify has returned is the seed.
C16_SeedTrusted ==
    effective = 0 =>
        \A b \in Branches :
            /\ runs[b] = 0 /\ computedAt[b] = 0
            /\ branch[b] = [value |-> Seed(scenario, b),
                            last_verified |-> GraphNew, last_modified |-> GraphNew]
            /\ Returned(b) => retval[b] = <<Seed(scenario, b), GraphNew>>
            /\ \A i \in 1..Len(stack) : stack[i].stage = "reborrow"

\* Before any replace, verify has returned the seed 9 of mul_c_sum_a_b to the
\* top-level caller, who still holds the reference.
C16_Witness ==
    /\ scenario = "main" /\ Idle /\ effective = 0 /\ revision = 0
    /\ cell["mul_c_sum_a_b"] = 1
    /\ retval["mul_c_sum_a_b"] = <<9, 0>>
    /\ runs["mul_c_sum_a_b"] = 0 /\ runs["sum_a_b"] = 0

----------------------------------------------------------------------------
C17_EntryStep ==
    \A b \in Branches :
        (Enters(b) /\ cell[b] = 0) =>
            LET f == stack'[Len(stack')] IN
            /\ Invokes(b) <=> branch[b].last_verified < revision
            /\ Invokes(b) =>
                    /\ branch'[b] = [branch[b] EXCEPT !.last_verified = revision]
                    /\ f.pc = 1 /\ f.loc = << >> /\ f.reads = {}
                    /\ cell'[b] = -1
            /\ ~Invokes(b) =>
                    /\ branch' = branch /\ cell' = cell
                    /\ f.stage = "reborrow"

\* While a closure runs, its branch already counts as checked for the current
\* revision.
C17_CheckedWhileRunning ==
    \A i \in ClosureFrames : branch[stack[i].br].last_verified = revision

\* C17 (staleness step): when verify acquires exclusive access it invokes the
\* recompute closure if and only if the branch's last_verified is less than
\* graph.revision on entry, and it sets last_verified to graph.revision
\* before the closure performs its first operation, so that reads nested in
\* the closure find the branch checked for this revision.
C17_StalenessStep == []C17_CheckedWhileRunning /\ [][C17_EntryStep]_vars

\* The closure of mul_c_sum_a_b is running at revision 2 on a branch last
\* verified at revision 1, and the nested verify of sum_a_b, verified earlier
\* at revision 2, has gone past its match without calling its closure.
C17_Witness ==
    /\ scenario = "main" /\ revision = 2 /\ panic = "none"
    /\ Len(stack) = 2
    /\ stack[1].br = "mul_c_sum_a_b" /\ stack[1].stage = "closure"
    /\ branch["mul_c_sum_a_b"].last_verified = 2
    /\ branch["mul_c_sum_a_b"].last_modified = 1
    /\ stack[2].br = "sum_a_b" /\ stack[2].stage = "reborrow" /\ stack[2].pc = 1
    /\ runs["sum_a_b"] = 1

----------------------------------------------------------------------------
\* A branch whose value a reader holds, or has been handed since the last
\* effective replace, is verified for the current revision.
C18_HeldIsVerified ==
    \A b \in Branches :
        (cell[b] > 0 \/ Returned(b)) => branch[b].last_verified = revision

C18_ReturnStep ==
    \A b \in Branches :
        Returns(b) => /\ branch[b].last_verified = revision
                      /\ branch' = branch

\* While the caller holds a reference no leaf is written and the revision
\* stays.
C18_HeldStep ==
    TotalHeld > 0 => (revision' = revision /\ leaf' = leaf)

\* C18 (value handed only when verified): whenever verify returns normally,
\* to the top level or to a closure, the branch's last_verified equals
\* graph.revision, and while a returned reference is held no effective leaf
\* replace occurs.
C18_HandedWhenVerified ==
    []C18_HeldIsVerified /\ [][C18_ReturnStep /\ C18_HeldStep]_vars

\* The caller holds a reference to sum_a_b, and the closure of mul_c_sum_a_b
\* has read sum_a_b while it was held and has recomputed; both references are
\* alive at revision 1.
C18_Witness ==
    /\ scenario = "main" /\ Idle /\ revision = 1
    /\ cell["sum_a_b"] = 1 /\ cell["mul_c_sum_a_b"] = 1
    /\ computedAt["mul_c_sum_a_b"] = 1
    /\ branch["sum_a_b"].last_verified = 1
    /\ branch["mul_c_sum_a_b"].last_verified = 1

----------------------------------------------------------------------------
\* The token of a running closure holds the maximum of the branch's
\* last_modified and the last_modified of everything read through it so far.
C19_TokenIsMax ==
    \A i \in ClosureFrames : stack[i].tok = Aggregate(stack[i])

C19_CommitStep ==
    \A b \in Branches :
        AtCompute(b) =>
            LET agg == Aggregate(Top) IN
            /\ MutatorRuns(b) <=> agg > branch[b].last_modified
            /\ agg > branch[b].last_modified =>
                    /\ branch'[b].last_modified = agg
                    /\ branch'[b].last_verified = branch[b].last_verified
            /\ ~(agg > branch[b].last_modified) => branch'[b] = branch[b]
            /\ branch'[b].last_modified = Max(ReadStamps(Top))

\* C19 (commit semantics): the token starts at the branch's last_modified and
\* aggregates the maximum of that and the last_modified of every leaf and
\* branch read through it; compute runs the mutator and sets last_modified to
\* the aggregate if and only if the aggregate exceeds the branch's
\* last_modified, and otherwise leaves the branch unchanged; after compute the
\* branch's last_modified is the maximum last_modified of the dependencies
\* read in that recomputation.
C19_CommitSemantics == []C19_TokenIsMax /\ [][C19_CommitStep]_vars

\* sum_dynamic committed at revision 2 after reading lhs = C (stamped 1), c
\* (stamped 0), rhs = SumAB (stamped 2) and sum_a_b (recomputed at 1): its
\* last_modified is 2, the maximum.
C19_Witness ==
    /\ scenario = "main" /\ Idle /\ revision = 2
    /\ leaf["lhs"] = [value |-> "C", last_modified |-> 1]
    /\ leaf["rhs"] = [value |-> "SumAB", last_modified |-> 2]
    /\ leaf["c"].last_modified = 0
    /\ computedAt["sum_dynamic"] = 2
    /\ branch["sum_dynamic"].last_modified = 2
    /\ branch["sum_a_b"].last_modified = 0

----------------------------------------------------------------------------
\* A normal return of a verify call that has just run its closure finds no
\* dependency the closure read stamped above the branch.
C20_ReturnStep ==
    \A b \in Branches :
        (Returns(b) /\ Top.pc > 1) =>
            \A s \in ReadStamps(Top) : s <= branch[b].last_modified

\* A closure that ends without compute after reading a dependency stamped
\* above the branch fails there.
C20_FailStep ==
    (InClosure /\ NextOp(Top).op = "end"
        /\ \E s \in ReadStamps(Top) : s > branch[Top.br].last_modified)
            => (panic' = ForgotPanic /\ stack' = stack /\ branch' = branch)

\* C20 (no stale return after a changed read): verify never returns normally
\* for a branch whose just-run recompute closure read a dependency with
\* last_modified greater than the branch's at return: either compute raised
\* the branch's last_modified to at least every dependency read, or the call
\* fails with the panic of the dropped token.
C20_NoStaleReturn == [][C20_ReturnStep /\ C20_FailStep]_vars

\* The closure that leaves out compute read ignite, replaced at revision 1,
\* and the call failed with the panic of Drop for ParentToken.
C20_Witness ==
    /\ scenario = "forget" /\ Idle /\ revision = 1
    /\ leaf["ignite"].last_modified = 1
    /\ branch["a"].last_modified = 0
    /\ runs["a"] = 1 /\ err = ForgotPanic /\ ~Returned("a")

----------------------------------------------------------------------------
\* The branches of the graphs whose closures read no branch that reads them.
Acyclic == scenario \in {"main", "forget"}

\* A cycle panic is raised only by a verify whose branch is being recomputed
\* by an activation further up the call chain.
C21_RaiseStep ==
    (panic # CyclePanic /\ panic' = CyclePanic) =>
        /\ stack # << >> /\ stack' = stack
        /\ \E i \in ClosureFrames : i < Len(stack) /\ stack[i].br = Top.br

C21_NoneInAcyclic == Acyclic => (panic # CyclePanic /\ err # CyclePanic)

\* C21 (no false cycle errors): verify fails with the cycle error only if the
\* same branch is being recomputed further up the current call chain; in an
\* acyclic graph it never does, also when a branch is reached twice through a
\* diamond or while a reference an earlier verify returned is still held.
C21_NoFalseCycle == []C21_NoneInAcyclic /\ [][C21_RaiseStep]_vars

\* The closure of mul_c_sum_a_b reads sum_a_b while the caller holds a
\* reference to it: the nested verify failed to borrow mutably and is about
\* to take its shared borrow.
C21_Witness ==
    /\ scenario = "main" /\ panic = "none" /\ Len(stack) = 2
    /\ stack[1].br = "mul_c_sum_a_b" /\ stack[1].stage = "closure"
    /\ stack[2].br = "sum_a_b" /\ stack[2].stage = "reborrow"
    /\ cell["sum_a_b"] = 1

----------------------------------------------------------------------------
\* A branch is mutably borrowed exactly while an activation on the call chain
\* is running its closure, and by one activation only.
C22_HeldWhileRunning ==
    \A b \in Branches :
        /\ cell[b] = -1 <=> \E i \in ClosureFrames : stack[i].br = b
        /\ Cardinality({i \in ClosureFrames : stack[i].br = b}) <= 1

\* Every exit of a closure's activation, by compute, by the end of the
\* closure or by unwinding, leaves the branch unborrowed.
C22_ExitStep ==
    \A i \in ClosureFrames :
        (i > Len(stack') \/ stack'[i].stage # "closure") => cell'[stack[i].br] = 0

\* Between calls nothing is mutably borrowed, however the last call ended.
C22_IdleFree ==
    stack = << >> => \A b \in Branches : cell[b] >= 0

\* C22 (guaranteed release): exclusive access to a branch is held only while
\* that branch's recompute closure is on the current call chain and is
\* released on every exit path; after a top-level verify call has returned or
\* has aborted with the cycle or the missed-commit panic no branch remains
\* exclusively held.
C22_GuaranteedRelease ==
    [](C22_HeldWhileRunning /\ C22_IdleFree) /\ [][C22_ExitStep]_vars

\* A call in the cyclic graph, which had both a and b mutably borrowed, has
\* aborted with the cycle panic and both are unborrowed.
C22_Witness ==
    /\ scenario = "cycle" /\ Idle /\ err = CyclePanic
    /\ aborted = {"a", "b"}
    /\ cell = [b \in Branches |-> 0]

----------------------------------------------------------------------------
\* A step that writes a leaf or advances the revision writes one leaf, and
\* leaves every branch, every borrow and the call stack as they are.
C23_ReplaceStep ==
    (revision' # revision \/ leaf' # leaf) =>
        /\ Cardinality({l \in Leaves : leaf'[l] # leaf[l]}) = 1
        /\ branch' = branch /\ cell' = cell
        /\ stack = << >> /\ stack' = << >>

\* A branch changes, and its closure is started, only in a step of its own
\* verify activation at the top of the call stack.
C23_OwnStep ==
    \A b \in Branches :
        /\ branch'[b] # branch[b] =>
                \/ Invokes(b)
                \/ InClosure /\ Top.br = b /\ NextOp(Top).op = "compute"
        /\ runs'[b] > runs[b] => Invokes(b)
        /\ computedAt'[b] # computedAt[b] => (InClosure /\ Top.br = b)

\* No closure of the main graph reads mul_c_sum_a_b: only a top-level call
\* reaches it.
C23_Reach ==
    scenario = "main" =>
        \A i \in 1..Len(stack) : stack[i].br = "mul_c_sum_a_b" => i = 1

\* A branch no verify has reached since the last effective replace is still
\* as stale as that replace left it.
C23_Untouched ==
    \A b \in Branches :
        (effective > 0 /\ runs[b] = 0 /\ ~Returned(b)
            /\ \A i \in 1..Len(stack) : stack[i].br # b)
                => branch[b].last_verified < revision

\* C23 (demand-driven recomputation): graph.replace changes only the revision
\* and the target leaf, never a branch; a branch's closure runs, and the
\* branch changes, only inside a verify call that reaches it, so a stale
\* branch that is not read in a pass is not recomputed in that pass.
C23_DemandDriven ==
    [](C23_Reach /\ C23_Untouched) /\ [][C23_ReplaceStep /\ C23_OwnStep]_vars

\* rhs was set to SumAB and everything verified at revision 1; then a was
\* replaced and only sum_dynamic reread: sum_a_b and sum_dynamic recomputed
\* at revision 2, mul_c_sum_a_b is stale and untouched.
C23_Witness ==
    /\ scenario = "main" /\ Idle /\ revision = 2
    /\ leaf["rhs"].value = "SumAB" /\ leaf["a"].last_modified = 2
    /\ computedAt["sum_a_b"] = 2 /\ computedAt["sum_dynamic"] = 2
    /\ Returned("sum_dynamic")
    /\ runs["mul_c_sum_a_b"] = 0 /\ ~Returned("mul_c_sum_a_b")
    /\ branch["mul_c_sum_a_b"].last_verified = 1
    /\ branch["mul_c_sum_a_b"].value = 9

----------------------------------------------------------------------------
\* update is the maximum, so two updates commute and a repeated one changes
\* nothing.
C24_UpdateLaws ==
    \A t, r, q \in Revisions :
        /\ TokenUpdate(t, r) = Max({t, r})
        /\ TokenUpdate(TokenUpdate(t, r), q) = TokenUpdate(TokenUpdate(t, q), r)
        /\ TokenUpdate(TokenUpdate(t, r), r) = TokenUpdate(t, r)

\* The token of a running closure is what the updates it received give in
\* any order, and with every update repeated.
C24_AnyOrder ==
    \A i \in ClosureFrames :
        LET f  == stack[i]
            s  == StampSeq(f)
            t0 == branch[f.br].last_modified
        IN  /\ \A p \in Permutations(1..Len(s)) :
                    FoldUpdate(t0, [k \in 1..Len(s) |-> s[p[k]]]) = f.tok
            /\ FoldUpdate(t0, s \o s) = f.tok

\* Leaf::read updates the reader's token once with the leaf's last_modified,
\* hands out the leaf's value and changes nothing else.
C24_ReadStep ==
    (InClosure /\ NextOp(Top).op = "leaf") =>
        LET l == NextOp(Top).name
            f == stack'[Len(stack)]
        IN  /\ Len(stack') = Len(stack)
            /\ f.tok = Max({Top.tok, leaf[l].last_modified})
            /\ f.loc = Append(Top.loc, leaf[l].value)
            /\ f.br = Top.br /\ f.stage = Top.stage
            /\ \A i \in 1..(Len(stack) - 1) : stack'[i] = stack[i]
            /\ leaf' = leaf /\ branch' = branch /\ cell' = cell
            /\ revision' = revision

\* A verify called with RootToken returns leaving no token behind: nothing
\* but the returned reference records the call.
C24_RootStep ==
    \A b \in Branches :
        (Returns(b) /\ Len(stack) = 1) =>
            /\ stack' = << >>
            /\ branch' = branch /\ leaf' = leaf /\ revision' = revision
            /\ cell' = [cell EXCEPT ![b] = @ + 1]

\* C24 (token aggregation): update on a branch token sets its running value
\* to max(current, revision): it is commutative and idempotent and the
\* aggregate of the updates a closure makes is independent of their order;
\* Leaf::read performs exactly one update with the leaf's last_modified and
\* changes nothing else; an update of RootToken has no effect.
C24_TokenAggregation ==
    [](C24_UpdateLaws /\ C24_AnyOrder) /\ [][C24_ReadStep /\ C24_RootStep]_vars

\* The closure of sum_dynamic has made four updates with the revisions 1, 0,
\* 2 and 0, in that order, and its token holds 2.
C24_Witness ==
    /\ scenario = "main" /\ InClosure /\ Len(stack) = 1
    /\ Top.br = "sum_dynamic" /\ NextOp(Top).op = "compute"
    /\ StampSeq(Top) = <<1, 0, 2, 0>>
    /\ Top.tok = 2


----------------------------------------------------------------------------
(* Order independence within a revision.                                   *)

\* E::sum_a_b, E::mul_c_sum_a_b and E::sum_dynamic of tests::main with the
\* reads of each closure made in the opposite order: b before a, sum_a_b
\* before c, the rhs selector and its arm before the lhs selector and its arm.
ClosureMainRev(b) ==
    CASE b = "sum_a_b" ->
            << Op("leaf", "b", 0), Op("leaf", "a", 0), Op("compute", "", 0) >>
      [] b = "mul_c_sum_a_b" ->
            << Op("branch", "sum_a_b", 0), Op("leaf", "c", 0), Op("compute", "", 0) >>
      [] b = "sum_dynamic" ->
            << Op("leaf", "rhs", 0), Op("match", "", 1),
               Op("leaf", "lhs", 0), Op("match", "", 3), Op("compute", "", 0) >>

\* The same mutators on the values as the reversed closures read them:
\* a + b, c * sum_a_b, lhs + rhs.
MutatorMainRev(b, loc) ==
    CASE b = "sum_a_b"       -> loc[2] + loc[1]
      [] b = "mul_c_sum_a_b" -> loc[2] * loc[1]
      [] b = "sum_dynamic"   -> loc[4] + loc[2]

ReadOrders == {"fwd", "rev"}

ClosureIn(ord, b) == IF ord = "fwd" THEN ClosureMain(b) ELSE ClosureMainRev(b)

MutatorIn(ord, b, loc) ==
    IF ord = "fwd" THEN MutatorMain(b, loc) ELSE MutatorMainRev(b, loc)

\* Branch::verify as one function of what it finds (st: the branches and their
\* counts), for a call that returns: CallVerify is the staleness test and the
\* stamp of last_verified, CallClosure the closure from its operation at
\* acc.pc on, with the token acc.tok and the values read so far acc.loc.
RECURSIVE CallVerify(_, _, _), CallClosure(_, _, _)
CallVerify(st, b, ord) ==
    IF st.branch[b].last_verified < revision
    THEN CallClosure([st  |-> [st EXCEPT !.branch[b].last_verified = revision,
                                         !.runs[b] = @ + 1],
                      tok |-> st.branch[b].last_modified,
                      loc |-> << >>,
                      pc  |-> 1], b, ord)
    ELSE st

CallClosure(acc, b, ord) ==
    LET c == ClosureIn(ord, b)[acc.pc]
        o == IF c.op = "match" THEN ABCArm(acc.loc[c.on]) ELSE c
    IN  CASE o.op = "leaf" ->
                CallClosure([acc EXCEPT !.tok = TokenUpdate(@, leaf[o.name].last_modified),
                                        !.loc = Append(@, leaf[o.name].value),
                                        !.pc = @ + 1], b, ord)
          [] o.op = "branch" ->
                LET st == CallVerify(acc.st, o.name, ord) IN
                CallClosure([st  |-> st,
                             tok |-> TokenUpdate(acc.tok, st.branch[o.name].last_modified),
                             loc |-> Append(acc.loc, st.branch[o.name].value),
                             pc  |-> acc.pc + 1], b, ord)
          [] o.op = "compute" ->
                IF acc.st.branch[b].last_modified < acc.tok
                THEN [acc.st EXCEPT !.branch[b].last_modified = acc.tok,
                                    !.branch[b].value = MutatorIn(ord, b, acc.loc),
                                    !.computes[b] = @ + 1]
                ELSE acc.st

\* The top-level calls s[i], s[i+1], .. made one after the other.
RECURSIVE CallSeq(_, _, _, _)
CallSeq(st, s, i, ord) ==
    IF i > Len(s) THEN st
    ELSE CallSeq(CallVerify(st, s[i], ord), s, i + 1, ord)

\* The orders in which the branches of S can be verified.
Orders(S) ==
    { s \in [1..Cardinality(S) -> S] : \A i, j \in DOMAIN s : s[i] = s[j] => i = j }

\* Between two calls on the acyclic graph: whatever set of branches the caller
\* verifies next, every order of the calls and either order of the closures'
\* reads leaves the same values, stamps and counts.
C25_AnyOrder ==
    (scenario = "main" /\ Idle) =>
        \A S \in SUBSET Branches :
            LET one == CallSeq(Found, CHOOSE p \in Orders(S) : TRUE, 1, "fwd") IN
            \A q \in Orders(S) :
                \A o \in ReadOrders : CallSeq(Found, q, 1, o) = one

\* A top-level call of the program that returns has done what CallVerify says.
C25_CallDone ==
    (scenario = "main" /\ Len(stack) = 1 /\ stack' = << >>) =>
        Found' = CallVerify(entry, Top.br, "fwd")

\* C25: for a fixed sequence of leaf replaces, the cached value, last_modified
\* and number of recomputations of every branch after verifying a given set of
\* branches do not depend on the order in which the top-level verify calls on
\* those branches are made, nor on the order in which a recompute closure
\* reads its dependencies.
C25_OrderIndependence == []C25_AnyOrder /\ [][C25_CallDone]_vars

\* Two leaves were replaced and nothing verified since: the next calls find
\* all three branches stale, and verifying them recomputes each of them once.
C25_Witness ==
    /\ scenario = "main" /\ Idle /\ revision = 2
    /\ \A b \in Branches : branch[b].last_verified = GraphNew
    /\ \E p \in Orders(Branches) :
            CallSeq(Found, p, 1, "rev").computes = [b \in Branches |-> 1]

====
